---- MODULE Spec2Model ----
(***************************************************************************)
(* Model of the geospatial benchmarking harness:                           *)
(*   - the CSV results writers (benchmark_utils.save_results and the       *)
(*     legacy utils.save_results), which share results/benchmark_results   *)
(*     .csv;                                                               *)
(*   - the Timer context manager;                                          *)
(*   - the cold/hot run protocol of the drivers;                           *)
(*   - the two-pass PyOsmium building reconstruction;                      *)
(*   - scripts that call benchmark_utils.save_results at the same time.    *)
(* Each part has its own specification over the variables it uses.         *)
(***************************************************************************)
EXTENDS Integers, Sequences, FiniteSets, TLC

VARIABLES
    csvExists,      \* results/benchmark_results.csv exists on disk
    csvLines,       \* its records, in file order; a record is a sequence of cells
    prevExists,     \* csvExists before the last save_results call
    prevLines,      \* csvLines before the last save_results call
    lastOp,         \* "none", "bench" (benchmark_utils) or "utils" (utils)
    lastArg,        \* the result_data of the last call
    lastOutcome,    \* "none", "saved" or "error_printed" (utils' except branch)
    nCalls,         \* number of save_results calls made so far
    clock,          \* time.perf_counter(), in ticks
    timer,          \* the attributes of the Timer object of the with block
    timerPc,        \* "idle", "body" (inside the with block) or "left"
    bodyRaised,     \* the body of the last with block raised
    excPropagated,  \* ... and the exception reached the caller
    nBlocks,        \* number of with blocks entered so far
    driver,         \* the benchmark function that is running
    num_runs,       \* its num_runs argument
    kwargs,         \* the optional arguments it was given
    pc,             \* "start", "cold", "hot", "done" or "crashed"
    opIdx,          \* index of the current operation among those to run
    hotIdx,         \* i of "for i in range(num_runs - 1)"
    cold_start_time,    \* None, or <<interval>>
    hot_start_times,    \* the list of recorded hot intervals
    runLog,         \* the timed runs of the operation last started, in order
    env,            \* what the caller found: the boundary fetch and the files on disk
    exception,      \* the exception that escaped the function, or "None"
    pbf,            \* the OSM file: its nodes, ways and relations in file order
    osmPc,          \* "idle", "start", "ids", "nodes", "cached" or "built"
    required_ways,  \* IdCollectorHandler.required_ways
    required_nodes, \* IdCollectorHandler.required_nodes
    nodes_cache,    \* BuildingGeometryHandler.nodes_cache: id -> (lon, lat)
    ways_cache,     \* ... ways_cache, in insertion order
    relations_cache,        \* ... relations_cache, in insertion order
    used_ways_in_relations, \* ... used_ways_in_relations
    buildings,      \* ... buildings, the rows of the GeoDataFrame
    procPc,         \* per process: its place in benchmark_utils.save_results
    procArg,        \* per process: the argument of its call
    procFileExists, \* per process: the local of that name
    buffer          \* per process: the records written to f and not yet flushed

csvVars == <<csvExists, csvLines, prevExists, prevLines, lastOp, lastArg,
             lastOutcome, nCalls>>

timerVars == <<clock, timer, timerPc, bodyRaised, excPropagated, nBlocks>>

driverVars == <<driver, num_runs, kwargs, pc, opIdx, hotIdx, cold_start_time,
                hot_start_times, runLog, env, exception>>

osmVars == <<pbf, osmPc, required_ways, required_nodes, nodes_cache,
             ways_cache, relations_cache, used_ways_in_relations, buildings>>

procVars == <<procPc, procArg, procFileExists, buffer>>

vars == <<csvVars, timerVars, driverVars, osmVars, procVars>>

-----------------------------------------------------------------------------
(* Bounds *)

MaxCalls == 3
MaxClock == 4
MaxBlocks == 2
MaxRuns == 3
MaxDuration == 2
NumWays == 3
NumRelations == 1
NumProcs == 2

-----------------------------------------------------------------------------
(* The CSV writers *)

\* benchmark_utils.py:25-28
fieldnames ==
    <<"use_case", "technology", "operation_description", "test_dataset",
      "execution_time_s", "num_runs", "output_size_mb", "notes">>

\* utils.py:14-21
CSV_HEADER ==
    <<"use_case", "technology", "operation_description", "test_dataset",
      "execution_time_s", "notes">>

Range(s) == {s[i] : i \in DOMAIN s}

\* The text csv writes for the values the callers put under each key, in two
\* variants per key; "junk" is a key no writer knows.
ValueText ==
    [use_case              |-> <<"uc3", "uc4">>,
     technology            |-> <<"DuckDB", "PostGIS">>,
     operation_description |-> <<"op1", "op2">>,
     test_dataset          |-> <<"milan", "rome">>,
     execution_time_s      |-> <<"0.5", "1.5">>,
     num_runs              |-> <<"1", "99">>,
     output_size_mb        |-> <<"2.0000", "N/A">>,
     notes                 |-> <<"cold", "hot">>,
     junk                  |-> <<"j1", "j2">>]

Variants == {1, 2}

\* The key sets of the dictionaries handed to the writers: what the current
\* drivers pass, what the legacy scripts pass, the legacy header itself, a
\* dictionary with an unknown key and no num_runs, one without the first
\* column, and {}.
KeySets ==
    { Range(fieldnames),
      Range(fieldnames) \ {"num_runs"},
      Range(CSV_HEADER),
      (Range(fieldnames) \ {"num_runs"}) \cup {"junk"},
      Range(fieldnames) \ {"use_case"},
      {} }

ResultDicts == { [k \in K |-> ValueText[k][v]] : K \in KeySets, v \in Variants }

\* The dictionary the legacy scripts build (uc1&2_duckdb_benchmark.py:49-57).
LegacyKeys == Range(fieldnames) \ {"num_runs"}

\* open(..., mode='a'): the writes go after what the file already holds.
OpenTruncate(lines) == <<>>
OpenAppend(lines) == lines

\* "if not file_exists: writer.writeheader()"
WriteHeaderIfNew(file_exists, names) ==
    IF ~file_exists THEN <<names>> ELSE <<>>

\* row_dict = {field: result_data.get(field, 'N/A') for field in fieldnames},
\* written by DictWriter in fieldnames order.
row_dict_blank(result_data) ==
    [i \in 1..Len(fieldnames) |->
        IF fieldnames[i] \in DOMAIN result_data
        THEN result_data[fieldnames[i]] ELSE ""]
row_dict(result_data) ==
    [i \in 1..Len(fieldnames) |->
        IF fieldnames[i] \in DOMAIN result_data
        THEN result_data[fieldnames[i]] ELSE "N/A"]

\* benchmark_utils.save_results: the file's records after the call.
benchmark_utils_save_results(file_exists, lines, result_data) ==
    OpenAppend(lines) \o WriteHeaderIfNew(file_exists, fieldnames)
                      \o <<row_dict(result_data)>>

\* csv.DictWriter(f, fieldnames=CSV_HEADER).writerow(d): extrasaction is
\* 'raise', so a key outside the header raises ValueError before anything is
\* written; a missing key is written as restval ''.
DictWriterRaises(names, result_data) ==
    ~(DOMAIN result_data \subseteq Range(names))

DictWriterRow(names, result_data) ==
    [i \in 1..Len(names) |->
        IF names[i] \in DOMAIN result_data THEN result_data[names[i]] ELSE ""]

\* utils.save_results: the header is written inside the try block before the
\* row; an exception of writerow is caught and printed.
utils_save_results(file_exists, lines, result_data) ==
    OpenAppend(lines) \o WriteHeaderIfNew(file_exists, CSV_HEADER)
        \o (IF DictWriterRaises(CSV_HEADER, result_data)
            THEN <<>> ELSE <<DictWriterRow(CSV_HEADER, result_data)>>)

\* The print after the with block reads result_data['technology'] and formats
\* execution_time_s; a KeyError there is caught too, after the row was written.
utils_outcome(result_data) ==
    IF \/ DictWriterRaises(CSV_HEADER, result_data)
       \/ "technology" \notin DOMAIN result_data
       \/ "execution_time_s" \notin DOMAIN result_data
    THEN "error_printed" ELSE "saved"

IsHeader(line) == line = fieldnames \/ line = CSV_HEADER

HeaderCount(lines) == Cardinality({i \in DOMAIN lines : IsHeader(lines[i])})
DataRows(lines) == Cardinality({i \in DOMAIN lines : ~IsHeader(lines[i])})

-----------------------------------------------------------------------------
(* The benchmark drivers: cold run, hot runs, result rows *)

None == <<>>

Drivers ==
    {"uc12_duckdb", "uc3_postgis", "uc3_duckdb", "uc4_postgis", "uc5_python",
     "raster_python", "uc12_pyosmium", "uc12_postgis", "uc12_vector_duckdb",
     "uc3_geopandas", "uc4_duckdb", "uc4_geopandas"}

\* The timed call of each operation: what the cold run invokes and what each
\* hot run invokes, read off the two with-Timer blocks of the operation.
Op(name, requires, coldCall, hotCall) ==
    [name |-> name, requires |-> requires, coldCall |-> coldCall,
     hotCall |-> hotCall]

SameCall(name, requires, call) == Op(name, requires, call, call)

Operations(drv) ==
    CASE drv = "uc12_duckdb" ->
           << SameCall("Extract buildings from PBF", {},
                  <<"pbf_reader.convert_pbf_to_geodataframe", "PBF_FILEPATH">>) >>
      [] drv = "uc3_postgis" ->
           << SameCall("3.1", {}, <<"cursor.execute", "query 3.1">>),
              SameCall("3.2", {}, <<"cursor.execute", "query 3.2">>),
              SameCall("3.3", {}, <<"cursor.execute", "query 3.3">>) >>
      [] drv = "uc3_duckdb" ->
           << SameCall("3.1", {}, <<"con.execute", "query 3.1">>),
              SameCall("3.2", {}, <<"con.execute", "query 3.2">>),
              SameCall("3.3", {"secondary_file_path"},
                  <<"con.execute", "query 3.3">>) >>
      [] drv = "uc4_postgis" ->
           << SameCall("4.1", {"neighborhoods_table", "restaurants_table"},
                  <<"execute_query", "query 4.1">>),
              SameCall("4.2", {"hospitals_table", "residential_streets_table",
                               "trees_table"},
                  <<"execute_query", "query 4.2">>),
              SameCall("4.3", {"parks_table", "city_boundary_wkt"},
                  <<"execute_query", "query 4.3">>) >>
      [] drv = "uc5_python" ->
           << Op("Calculate Population per Municipality", {},
                 <<"zonal_stats", "piedmont_gdf", "raster_path", "stats=sum",
                   "nodata=-200">>,
                 <<"zonal_stats", "piedmont_gdf", "raster_path", "stats=sum">>) >>
      [] drv = "raster_python" ->
           << SameCall("Open GeoTIFF file", {},
                  <<"rioxarray.open_rasterio", "raster_path">>),
              SameCall("Clip raster", {},
                  <<"rds.rio.clip", "boundary_gdf.geometry", "boundary_gdf.crs",
                    "drop=True">>) >>
      [] drv = "uc12_pyosmium" ->
           << SameCall("Extract buildings from PBF", {},
                  <<"BuildingGeometryHandler", "apply_file", "get_geodataframe",
                    "intersects">>) >>
      [] drv = "uc12_postgis" ->
           << SameCall("Extract buildings from DB", {},
                  <<"cursor.execute", "query">>) >>
      [] drv = "uc12_vector_duckdb" ->
           << SameCall("Read Shapefile using ST_Read", {},
                  <<"con.execute", "CREATE OR REPLACE TABLE comuni">>),
              SameCall("Filter table by attribute", {},
                  <<"con.execute", "filtering_query">>) >>
      [] drv = "uc3_geopandas" ->
           << SameCall("3.1", {}, <<"op_top_10_areas", "gdf_buildings">>),
              SameCall("3.2", {}, <<"op_total_buffered_area", "gdf_buildings">>),
              SameCall("3.3", {}, <<"op_restaurants_not_near_bus_stops",
                                    "gdf_restaurants", "gdf_bus_stops">>) >>
      [] drv = "uc4_duckdb" ->
           << SameCall("4.1", {"neighborhoods_file", "restaurants_file"},
                  <<"con.execute", "query 4.1">>),
              SameCall("4.2", {"hospitals_file", "residential_streets_file",
                               "trees_file"},
                  <<"con.execute", "query 4.2">>),
              SameCall("4.3", {"parks_file", "city_boundary_wkt"},
                  <<"con.execute", "query 4.3">>) >>
      [] drv = "uc4_geopandas" ->
           << SameCall("4.1", {"neighborhoods_file", "restaurants_file"},
                  <<"op_4_1_restaurants_per_neighborhood">>),
              SameCall("4.2", {"hospitals_file", "residential_streets_file",
                               "trees_file"},
                  <<"op_4_2_tree_count_and_length_sum_of_residential_roads_near_hospitals">>),
              SameCall("4.3", {"parks_file", "city_boundary_gdf"},
                  <<"op_4_3_area_not_covered_by_parks">>) >>

Uc4Tables ==
    {"neighborhoods_table", "restaurants_table", "hospitals_table",
     "residential_streets_table", "trees_table", "parks_table"}

\* The keys of datasets_by_city[city] in the UC4 DuckDB and GeoPandas scripts.
Uc4Datasets ==
    {"neighborhoods", "parks", "restaurants", "hospitals",
     "residential_streets", "trees"}

Uc4Drivers == {"uc4_duckdb", "uc4_geopandas", "uc4_postgis"}

\* The UC1&2 functions that begin with "if not <pbf>.exists(): return".
PbfDrivers == {"uc12_duckdb", "uc12_pyosmium"}

Env(boundary, files) == [boundary |-> boundary, files |-> files]

NoEnv == Env("unused", {})

\* What the caller can find: the outcome of the boundary fetch and the files
\* that exist, for the scripts that look at them.
Envs(drv) ==
    CASE drv \in PbfDrivers ->
           { Env(b, f) : b \in {"fetched", "failed"}, f \in {{}, {"pbf"}} }
      [] drv = "uc12_postgis" ->
           { Env(b, {}) : b \in {"fetched", "failed"} }
      [] drv = "uc4_postgis" ->
           { Env(b, {}) : b \in {"fetched", "failed"} }
      [] drv \in {"uc4_duckdb", "uc4_geopandas"} ->
           { Env(b, f) : b \in {"fetched", "failed"},
                         f \in {Uc4Datasets, Uc4Datasets \ {"parks"}, {}} }
      [] OTHER -> {NoEnv}

\* The keyword arguments of the calls the main block makes, one set of keys
\* per call.  A boundary that could not be fetched is None: the UC4 DuckDB
\* script tests it before its third call, the UC4 PostGIS and GeoPandas
\* scripts pass it on under its key.
KwargsOf(drv, e) ==
    CASE drv = "uc3_duckdb" -> {{}, {"secondary_file_path"}}
      [] drv = "uc4_postgis" -> {Uc4Tables \cup {"city_boundary_wkt"}}
      [] drv = "uc4_geopandas" -> {Uc4Datasets \cup {"city_boundary_gdf"}}
      [] drv = "uc4_duckdb" ->
           (IF {"neighborhoods", "restaurants"} \subseteq e.files
            THEN {{"neighborhoods_file", "restaurants_file"}} ELSE {})
           \cup
           (IF {"hospitals", "residential_streets", "trees"} \subseteq e.files
            THEN {{"hospitals_file", "residential_streets_file", "trees_file"}}
            ELSE {})
           \cup
           (IF "parks" \in e.files /\ e.boundary = "fetched"
            THEN {{"parks_file", "city_boundary_wkt"}} ELSE {})
      [] OTHER -> {{}}

\* "for op in operations: if <cannot run>: continue"
OperationRuns(drv, op, kw) ==
    CASE drv = "uc3_duckdb" ->
           ~(\/ (op.requires # {} /\ "secondary_file_path" \notin kw)
             \/ (op.requires = {} /\ "secondary_file_path" \in kw))
      [] drv \in Uc4Drivers -> op.requires \subseteq kw
      [] OTHER -> TRUE

\* The function returns before its first timed run: the PBF file is missing,
\* or the boundary fetch raised and the except branch returns (uc1&2 DuckDB,
\* PyOsmium) or is the function's outer except (uc1&2 PostGIS).
Aborts(drv, e) ==
    \/ drv \in PbfDrivers /\ "pbf" \notin e.files
    \/ drv \in PbfDrivers \cup {"uc12_postgis"} /\ e.boundary = "failed"

\* The UC4 PostGIS query 4.3 is formatted with the boundary it was given:
\* with None it reads ST_GeomFromText('None'), which the database rejects.
CallCanSucceed(drv, op, e) ==
    ~(/\ drv = "uc4_postgis"
      /\ "city_boundary_wkt" \in op.requires
      /\ e.boundary = "failed")

OpsToRunReversed(drv, kw) ==
    LET ops == SelectSeq(Operations(drv), LAMBDA op : OperationRuns(drv, op, kw))
    IN  [i \in 1..Len(ops) |-> ops[Len(ops) + 1 - i]]
OpsToRun(drv, kw) ==
    SelectSeq(Operations(drv), LAMBDA op : OperationRuns(drv, op, kw))

\* The uc1&2 OSM drivers save both rows after the hot loop; the others save
\* the cold row after the cold run and the hot row after the hot loop of the
\* operation.
SavesAfterLoop(drv) == drv \in {"uc12_duckdb", "uc12_pyosmium", "uc12_postgis"}

\* What becomes of an exception raised by a timed run: "done" when an except
\* branch ends the function, "skip" when the loop goes on, "crashed" when it
\* escapes the function.
ColdFailureEscapes(drv) ==
    IF drv \in {"uc3_postgis", "uc12_postgis"} THEN "done" ELSE "crashed"
ColdFailure(drv) ==
    IF drv \in {"uc12_duckdb", "uc3_postgis", "uc12_pyosmium", "uc12_postgis"}
    THEN "done" ELSE "crashed"

HotFailureAborts(drv) ==
    CASE drv \in {"uc12_duckdb", "uc3_postgis", "uc12_postgis"} -> "done"
      [] drv = "uc12_vector_duckdb" -> "skip"
      [] OTHER -> "crashed"
HotFailure(drv) ==
    CASE drv \in {"uc12_duckdb", "uc12_vector_duckdb"} -> "skip"
      [] drv \in {"uc3_postgis", "uc12_postgis"} -> "done"
      [] OTHER -> "crashed"

\* "avg_hot_time = sum(hot_start_times) / len(hot_start_times)" straight after
\* the hot loop, where the uc1&2 OSM drivers test the list first.
AveragesUnguarded(drv) == ~SavesAfterLoop(drv)

\* range(num_runs - 1), entered only if num_runs > 1
PlannedHotRunsOffByOne(n) == IF n > 1 THEN n ELSE 0
PlannedHotRuns(n) == IF n > 1 THEN n - 1 ELSE 0

RECURSIVE Sum(_)
Sum(times) == IF times = <<>> THEN 0 ELSE Head(times) + Sum(Tail(times))

RECURSIVE GCD(_, _)
GCD(a, b) == IF b = 0 THEN a ELSE GCD(b, a % b)

\* The text csv writes for the number num / den.
FloatText(num, den) ==
    LET g == GCD(num, den) IN ToString(num \div g) \o "/" \o ToString(den \div g)

\* average = sum(hot_start_times) / len(hot_start_times)
AverageOverOneMore(times) == FloatText(Sum(times), Len(times) + 1)
Average(times) == FloatText(Sum(times), Len(times))

Technology(drv) ==
    CASE drv \in {"uc12_duckdb", "uc3_duckdb"} -> "DuckDB"
      [] drv \in {"uc3_postgis", "uc4_postgis", "uc12_postgis"} -> "PostGIS"
      [] drv \in {"uc12_vector_duckdb", "uc4_duckdb"} -> "DuckDB Spatial"
      [] drv \in {"uc3_geopandas", "uc4_geopandas"} -> "GeoPandas"
      [] drv = "uc12_pyosmium" -> "PyOsmium + GeoPandas"
      [] OTHER -> "Python"

cold_result(drv, op, cold_time) ==
    [use_case |-> drv, technology |-> Technology(drv),
     operation_description |-> op.name, test_dataset |-> "dataset",
     execution_time_s |-> FloatText(cold_time, 1), num_runs |-> ToString(1),
     output_size_mb |-> "N/A", notes |-> "Cold start (first run)."]

hot_result(drv, op, hot_times) ==
    [use_case |-> drv, technology |-> Technology(drv),
     operation_description |-> op.name, test_dataset |-> "dataset",
     execution_time_s |-> Average(hot_times),
     num_runs |-> ToString(Len(hot_times)),
     output_size_mb |-> "N/A", notes |-> "Average of hot cache runs."]

\* save_results on the file held in <<exists, lines>>.
Save(file, result_data) ==
    <<TRUE, benchmark_utils_save_results(file[1], file[2], result_data)>>

-----------------------------------------------------------------------------
(* The OSM file read by the PyOsmium driver *)

\* The nodes of the file: ids 1..NumWays + 2; node 0 is referenced by some
\* ways but lies outside the extract.
FileNodes ==
    [i \in 1..(NumWays + 2) |-> [kind |-> "n", id |-> i, lon |-> i, lat |-> 10 + i]]

Ring(i) == <<i, i + 1, i + 2, i>>
Dangling(i) == <<i, i + 1, 0, i>>
Short(i) == <<i, i + 1, i>>

BuildingTags == [building |-> "yes"]
NoTags == <<>>

\* What a way of the file can be: its tags, its node list and its role in
\* the relations ("" when it is no member).
WayKinds ==
    { [tags |-> BuildingTags, shape |-> "ring",     role |-> ""],
      [tags |-> NoTags,       shape |-> "ring",     role |-> "outer"],
      [tags |-> NoTags,       shape |-> "ring",     role |-> "inner"],
      [tags |-> BuildingTags, shape |-> "ring",     role |-> "outer"],
      [tags |-> NoTags,       shape |-> "dangling", role |-> "inner"],
      [tags |-> NoTags,       shape |-> "ring",     role |-> ""],
      [tags |-> BuildingTags, shape |-> "short",    role |-> ""],
      [tags |-> BuildingTags, shape |-> "ring",     role |-> "inner"] }

NodesOfShape(shape, i) ==
    CASE shape = "ring" -> Ring(i)
      [] shape = "dangling" -> Dangling(i)
      [] OTHER -> Short(i)

FileWays(kinds) ==
    [i \in 1..NumWays |->
        [kind |-> "w", id |-> i, nodes |-> NodesOfShape(kinds[i].shape, i),
         tags |-> kinds[i].tags]]

RelationTags ==
    { [type |-> "multipolygon", building |-> "yes"],
      [type |-> "multipolygon"],
      [type |-> "site", building |-> "yes"] }

Member(ref, type, role) == [ref |-> ref, type |-> type, role |-> role]

\* The members of the relations: a node that has the id of way 1, the member
\* ways in id order, and way 99, which is not in the extract.
Members(kinds) ==
    <<Member(1, "n", "entrance")>>
    \o SelectSeq([i \in 1..NumWays |-> Member(i, "w", kinds[i].role)],
                 LAMBDA m : m.role # "")
    \o <<Member(99, "w", "outer")>>

FileRelations(kinds, rtags) ==
    [j \in 1..NumRelations |->
        [kind |-> "r", id |-> j, members |-> Members(kinds), tags |-> rtags[j]]]

FileOrders == {"nwr", "nrw", "rwn"}

PbfFile(kinds, rtags, order) ==
    LET n == FileNodes
        w == FileWays(kinds)
        r == FileRelations(kinds, rtags)
    IN  CASE order = "nwr" -> n \o w \o r
          [] order = "nrw" -> n \o r \o w
          [] OTHER -> r \o w \o n

PbfFiles ==
    { PbfFile(kinds, rtags, order) :
        kinds \in [1..NumWays -> WayKinds],
        rtags \in [1..NumRelations -> RelationTags],
        order \in FileOrders }

HasTag(tags, key) == key \in DOMAIN tags
TagValue(tags, key) == IF key \in DOMAIN tags THEN tags[key] ELSE "None"

\* "r.tags.get('type') == 'multipolygon' and 'building' in r.tags"
IsBuildingMultipolygon(tags) ==
    TagValue(tags, "type") = "multipolygon" /\ HasTag(tags, "building")

-----------------------------------------------------------------------------
(* The two-pass building reconstruction *)

MinRingPoints == 4

\* IdCollectorHandler.relation
IdCollector_relation_any_member(ways, r) ==
    IF IsBuildingMultipolygon(r.tags)
    THEN ways \cup {r.members[i].ref : i \in DOMAIN r.members}
    ELSE ways
IdCollector_relation(ways, r) ==
    IF IsBuildingMultipolygon(r.tags)
    THEN ways \cup {r.members[i].ref :
                       i \in {j \in DOMAIN r.members : r.members[j].type = "w"}}
    ELSE ways

\* IdCollectorHandler.way
IdCollector_way(ways, w) ==
    IF HasTag(w.tags, "building") THEN ways \cup {w.id} ELSE ways

\* IdCollectorHandler.apply_file: the callbacks in file order; the handler has
\* no node callback.
RECURSIVE IdCollector_apply_file(_, _)
IdCollector_apply_file(ways, file) ==
    IF file = <<>> THEN ways
    ELSE LET e == Head(file) IN
         IdCollector_apply_file(
            CASE e.kind = "r" -> IdCollector_relation(ways, e)
              [] e.kind = "w" -> IdCollector_way(ways, e)
              [] OTHER -> ways,
            Tail(file))

\* NodeCollector.way
NodeCollector_way(ways, nodes, w) ==
    IF w.id \in ways THEN nodes \cup Range(w.nodes) ELSE nodes

\* IdCollectorHandler.collect_way_nodes: a scan of the whole file with the
\* final required_ways.
RECURSIVE collect_way_nodes(_, _, _)
collect_way_nodes(ways, nodes, file) ==
    IF file = <<>> THEN nodes
    ELSE LET e == Head(file) IN
         collect_way_nodes(ways,
            IF e.kind = "w" THEN NodeCollector_way(ways, nodes, e) ELSE nodes,
            Tail(file))

DictSet(dict, key, value) ==
    [k \in (DOMAIN dict) \cup {key} |-> IF k = key THEN value ELSE dict[k]]

\* BuildingGeometryHandler.node / way / relation on the caches
\* h = [nodes, ways, relations].
BuildingGeometry_node(h, req_nodes, n) ==
    IF n.id \in req_nodes
    THEN [h EXCEPT !.nodes = DictSet(h.nodes, n.id, <<n.lon, n.lat>>)]
    ELSE h

BuildingGeometry_way(h, req_ways, w) ==
    IF w.id \in req_ways
    THEN [h EXCEPT !.ways =
            Append(h.ways, [id |-> w.id, nodes |-> w.nodes, tags |-> w.tags])]
    ELSE h

BuildingGeometry_relation(h, r) ==
    IF IsBuildingMultipolygon(r.tags)
    THEN [h EXCEPT !.relations =
            Append(h.relations, [id |-> r.id, members |-> r.members, tags |-> r.tags])]
    ELSE h

RECURSIVE BuildingGeometry_apply_file(_, _, _, _)
BuildingGeometry_apply_file(h, req_nodes, req_ways, file) ==
    IF file = <<>> THEN h
    ELSE LET e == Head(file) IN
         BuildingGeometry_apply_file(
            CASE e.kind = "n" -> BuildingGeometry_node(h, req_nodes, e)
              [] e.kind = "w" -> BuildingGeometry_way(h, req_ways, e)
              [] OTHER -> BuildingGeometry_relation(h, e),
            req_nodes, req_ways, Tail(file))

CachedWayIds(ways) == {ways[i].id : i \in DOMAIN ways}
CachedWay(ways, id) == ways[CHOOSE i \in DOMAIN ways : ways[i].id = id]

\* [self.nodes_cache[node_id] for node_id in way['nodes'] if node_id in self.nodes_cache]
Points(way_nodes, nodes) ==
    LET known == SelectSeq(way_nodes, LAMBDA n : n \in DOMAIN nodes)
    IN  [i \in 1..Len(known) |-> nodes[known[i]]]

Polygon(shell, holes) == [type |-> "Polygon", shell |-> shell, holes |-> holes]
MultiPolygon(polygons) == [type |-> "MultiPolygon", polygons |-> polygons]

\* The rings of one relation: its cached member ways with at least four
\* resolved points, by role.
MemberRings(rel, ways, nodes, wantOuter) ==
    LET usable == SelectSeq(rel.members,
                    LAMBDA m : /\ m.type = "w"
                               /\ m.ref \in CachedWayIds(ways)
                               /\ Len(Points(CachedWay(ways, m.ref).nodes, nodes))
                                     >= MinRingPoints
                               /\ (m.role = "outer") = wantOuter)
    IN  [i \in 1..Len(usable) |-> Points(CachedWay(ways, usable[i].ref).nodes, nodes)]

\* "polygon = Polygon(outer_rings[0], inner_rings) if len(outer_rings) == 1
\*  else MultiPolygon([Polygon(o) for o in outer_rings])"
RelationGeometry(outer_rings, inner_rings) ==
    IF Len(outer_rings) = 1
    THEN Polygon(outer_rings[1], inner_rings)
    ELSE MultiPolygon([i \in 1..Len(outer_rings) |-> Polygon(outer_rings[i], <<>>)])

\* The first loop of get_geodataframe: one building per relation that has an
\* outer ring.
RECURSIVE RelationBuildings(_, _, _)
RelationBuildings(relations, ways, nodes) ==
    IF relations = <<>> THEN <<>>
    ELSE LET rel == Head(relations)
             outer_rings == MemberRings(rel, ways, nodes, TRUE)
             inner_rings == MemberRings(rel, ways, nodes, FALSE)
         IN  (IF outer_rings # <<>>
              THEN <<[geometry |-> RelationGeometry(outer_rings, inner_rings),
                      tags |-> rel.tags]>>
              ELSE <<>>)
             \o RelationBuildings(Tail(relations), ways, nodes)

\* self.used_ways_in_relations.add(way_id), for every cached member way.
UsedWays(relations, ways) ==
    UNION { {relations[j].members[i].ref :
                i \in {k \in DOMAIN relations[j].members :
                          /\ relations[j].members[k].type = "w"
                          /\ relations[j].members[k].ref \in CachedWayIds(ways)}} :
            j \in DOMAIN relations }

\* The second loop: the building ways no relation used.
RECURSIVE WayBuildings(_, _, _)
WayBuildings(ways, used, nodes) ==
    IF ways = <<>> THEN <<>>
    ELSE LET way == Head(ways)
             points == Points(way.nodes, nodes)
         IN  (IF /\ HasTag(way.tags, "building")
                 /\ way.id \notin used
                 /\ Len(points) >= MinRingPoints
              THEN <<[geometry |-> Polygon(points, <<>>), tags |-> way.tags]>>
              ELSE <<>>)
             \o WayBuildings(Tail(ways), used, nodes)

\* BuildingGeometryHandler.get_geodataframe
get_geodataframe(relations, ways, nodes) ==
    RelationBuildings(relations, ways, nodes)
    \o WayBuildings(ways, UsedWays(relations, ways), nodes)

IdleOsm ==
    /\ pbf = <<>>
    /\ osmPc = "idle"
    /\ required_ways = {}
    /\ required_nodes = {}
    /\ nodes_cache = <<>>
    /\ ways_cache = <<>>
    /\ relations_cache = <<>>
    /\ used_ways_in_relations = {}
    /\ buildings = <<>>

OsmInit ==
    /\ pbf \in PbfFiles
    /\ osmPc = "start"
    /\ required_ways = {}
    /\ required_nodes = {}
    /\ nodes_cache = <<>>
    /\ ways_cache = <<>>
    /\ relations_cache = <<>>
    /\ used_ways_in_relations = {}
    /\ buildings = <<>>

\* id_handler = IdCollectorHandler(); id_handler.apply_file(pbf)
FirstPassApplyFile ==
    /\ osmPc = "start"
    /\ required_ways' = IdCollector_apply_file({}, pbf)
    /\ osmPc' = "ids"
    /\ UNCHANGED <<pbf, required_nodes, nodes_cache, ways_cache, relations_cache,
                   used_ways_in_relations, buildings>>

\* id_handler.collect_way_nodes(pbf)
CollectWayNodes ==
    /\ osmPc = "ids"
    /\ required_nodes' = collect_way_nodes(required_ways, {}, pbf)
    /\ osmPc' = "nodes"
    /\ UNCHANGED <<pbf, required_ways, nodes_cache, ways_cache, relations_cache,
                   used_ways_in_relations, buildings>>

\* builder = BuildingGeometryHandler(...); builder.apply_file(pbf, locations=True)
SecondPassApplyFile ==
    /\ osmPc = "nodes"
    /\ LET h == BuildingGeometry_apply_file(
                    [nodes |-> <<>>, ways |-> <<>>, relations |-> <<>>],
                    required_nodes, required_ways, pbf)
       IN  /\ nodes_cache' = h.nodes
           /\ ways_cache' = h.ways
           /\ relations_cache' = h.relations
    /\ osmPc' = "cached"
    /\ UNCHANGED <<pbf, required_ways, required_nodes, used_ways_in_relations,
                   buildings>>

\* builder.get_geodataframe()
GetGeodataframe ==
    /\ osmPc = "cached"
    /\ buildings' = get_geodataframe(relations_cache, ways_cache, nodes_cache)
    /\ used_ways_in_relations' = UsedWays(relations_cache, ways_cache)
    /\ osmPc' = "built"
    /\ UNCHANGED <<pbf, required_ways, required_nodes, nodes_cache, ways_cache,
                   relations_cache>>

-----------------------------------------------------------------------------
(* Specification of the writers *)

CsvInit ==
    /\ csvExists = FALSE
    /\ csvLines = <<>>
    /\ prevExists = FALSE
    /\ prevLines = <<>>
    /\ lastOp = "none"
    /\ lastArg = <<>>
    /\ lastOutcome = "none"
    /\ nCalls = 0

BenchSaveResults ==
    \E d \in ResultDicts :
        /\ nCalls < MaxCalls
        /\ csvLines' = benchmark_utils_save_results(csvExists, csvLines, d)
        /\ csvExists' = TRUE
        /\ prevExists' = csvExists
        /\ prevLines' = csvLines
        /\ lastOp' = "bench"
        /\ lastArg' = d
        /\ lastOutcome' = "saved"
        /\ nCalls' = nCalls + 1

UtilsSaveResults ==
    \E d \in ResultDicts :
        /\ nCalls < MaxCalls
        /\ csvLines' = utils_save_results(csvExists, csvLines, d)
        /\ csvExists' = TRUE
        /\ prevExists' = csvExists
        /\ prevLines' = csvLines
        /\ lastOp' = "utils"
        /\ lastArg' = d
        /\ lastOutcome' = utils_outcome(d)
        /\ nCalls' = nCalls + 1

-----------------------------------------------------------------------------
(* Properties of the writers *)

LastLine(lines) == lines[Len(lines)]

\* C1: benchmark_utils.save_results is append-only: a call that returns adds
\* exactly one data row, as the last record of the file, and every record the
\* file held before the call is still there, unchanged and in the same place;
\* the only other record it may add is the header of a new file.
C1_AppendOnly ==
    (lastOp = "bench" /\ lastOutcome = "saved") =>
        /\ Len(csvLines) >= Len(prevLines) + 1
        /\ Len(csvLines) <= Len(prevLines) + 2
        /\ \A i \in 1..Len(prevLines) : csvLines[i] = prevLines[i]
        /\ DataRows(csvLines) = DataRows(prevLines) + 1
        /\ ~IsHeader(LastLine(csvLines))

\* A call of benchmark_utils.save_results on a file that already holds a
\* header and data rows.
C1_Witness ==
    /\ lastOp = "bench"
    /\ prevExists
    /\ DataRows(prevLines) >= 1
    /\ HeaderCount(prevLines) = 1

\* C2: starting from no file, after n >= 1 save_results calls the file is one
\* header line, the first line, followed by exactly n data rows; a call on an
\* existing file writes no header.
C2_HeaderOnceThenNRows ==
    /\ nCalls >= 1 =>
        /\ csvExists
        /\ HeaderCount(csvLines) = 1
        /\ IsHeader(csvLines[1])
        /\ DataRows(csvLines) = nCalls
    /\ (lastOp # "none" /\ prevExists) =>
        HeaderCount(csvLines) = HeaderCount(prevLines)

\* C3: the record benchmark_utils.save_results writes has the eight columns in
\* the order of fieldnames; a field of result_data is written with its value,
\* an absent field as 'N/A', a key outside the eight columns is dropped and
\* the call still returns; the header of a file it creates names the columns.
C3_EightColumns ==
    (lastOp = "bench") =>
        LET row == LastLine(csvLines) IN
        /\ lastOutcome = "saved"
        /\ Len(row) = 8
        /\ \A i \in 1..8 :
              LET col == <<"use_case", "technology", "operation_description",
                           "test_dataset", "execution_time_s", "num_runs",
                           "output_size_mb", "notes">>[i]
              IN  row[i] = IF col \in DOMAIN lastArg THEN lastArg[col] ELSE "N/A"
        /\ ("junk" \in DOMAIN lastArg) =>
              \A i \in 1..Len(row) : row[i] # lastArg["junk"]
        /\ ~prevExists => Len(csvLines[1]) = 8

\* A call whose dictionary has an unknown key and lacks num_runs.
C3_Witness ==
    /\ lastOp = "bench"
    /\ "junk" \in DOMAIN lastArg
    /\ "num_runs" \notin DOMAIN lastArg
    /\ "use_case" \in DOMAIN lastArg

\* C4: for the dictionaries the legacy scripts pass, each utils.save_results
\* call appends one data row to benchmark_results.csv.
C4_LegacyRowAppended ==
    (lastOp = "utils" /\ DOMAIN lastArg = LegacyKeys) =>
        /\ DataRows(csvLines) = DataRows(prevLines) + 1
        /\ lastOutcome = "saved"

-----------------------------------------------------------------------------
(* The Timer context manager *)

SetAttr(self, name, value) ==
    [k \in (DOMAIN self) \cup {name} |-> IF k = name THEN value ELSE self[k]]

\* Timer(): an object without attributes.
NewTimer == <<>>

\* __enter__: self.start = time.perf_counter()
Timer_enter(self, now) == SetAttr(self, "start", now)

\* __exit__: self.end = time.perf_counter(); self.interval = self.end - self.start
Timer_exit_swapped(self, now) ==
    SetAttr(SetAttr(self, "end", now), "interval", self["start"] - now)
Timer_exit(self, now) ==
    SetAttr(SetAttr(self, "end", now), "interval", now - self["start"])

\* __exit__ has no return statement: it returns None.
Timer_exit_returns == "None"

\* The with statement swallows the body's exception iff __exit__ returns a
\* true value.
Suppressed(exit_value) == exit_value = "True"

TimerInit ==
    /\ clock = 0
    /\ timer = NewTimer
    /\ timerPc = "idle"
    /\ bodyRaised = FALSE
    /\ excPropagated = FALSE
    /\ nBlocks = 0

\* Time passes, inside or outside a with block; perf_counter never goes back.
Tick ==
    /\ clock < MaxClock
    /\ clock' = clock + 1
    /\ UNCHANGED <<timer, timerPc, bodyRaised, excPropagated, nBlocks>>

\* "with Timer() as t:" is entered.
WithEnter ==
    /\ timerPc \in {"idle", "left"}
    /\ nBlocks < MaxBlocks
    /\ timer' = Timer_enter(NewTimer, clock)
    /\ timerPc' = "body"
    /\ nBlocks' = nBlocks + 1
    /\ UNCHANGED <<clock, bodyRaised, excPropagated>>

\* The body completes.
WithExitNormal ==
    /\ timerPc = "body"
    /\ timer' = Timer_exit(timer, clock)
    /\ timerPc' = "left"
    /\ bodyRaised' = FALSE
    /\ excPropagated' = FALSE
    /\ UNCHANGED <<clock, nBlocks>>

\* The body raises: __exit__ runs with the exception's details.
WithExitRaise ==
    /\ timerPc = "body"
    /\ timer' = Timer_exit(timer, clock)
    /\ timerPc' = "left"
    /\ bodyRaised' = TRUE
    /\ excPropagated' = ~Suppressed(Timer_exit_returns)
    /\ UNCHANGED <<clock, nBlocks>>

-----------------------------------------------------------------------------
(* Processes that call benchmark_utils.save_results at the same time *)

Procs == 1..NumProcs

\* The dictionaries the current drivers pass: all eight keys.
DriverDicts == { d \in ResultDicts : DOMAIN d = Range(fieldnames) }

\* No script is inside save_results.
IdleProcs ==
    /\ procPc = [p \in Procs |-> "idle"]
    /\ procArg = [p \in Procs |-> <<>>]
    /\ procFileExists = [p \in Procs |-> FALSE]
    /\ buffer = [p \in Procs |-> <<>>]

\* Every script is about to call save_results(result_data).
ProcsInit ==
    /\ procPc = [p \in Procs |-> "call"]
    /\ procArg \in [Procs -> DriverDicts]
    /\ procFileExists = [p \in Procs |-> FALSE]
    /\ buffer = [p \in Procs |-> <<>>]

\* file_exists = results_filepath.exists()
ExistsCheck(p) ==
    /\ procPc[p] = "call"
    /\ procFileExists' = [procFileExists EXCEPT ![p] = csvExists]
    /\ procPc' = [procPc EXCEPT ![p] = "checked"]
    /\ UNCHANGED <<csvExists, csvLines, procArg, buffer>>

\* open(results_filepath, mode='a', ...): creates the file if it is not there.
OpenFile(p) ==
    /\ procPc[p] = "checked"
    /\ csvExists' = TRUE
    /\ procPc' = [procPc EXCEPT ![p] = "open"]
    /\ UNCHANGED <<csvLines, procArg, procFileExists, buffer>>

\* "if not file_exists: writer.writeheader()", into the buffer of f.
WriteHeader(p) ==
    /\ procPc[p] = "open"
    /\ buffer' = [buffer EXCEPT ![p] = @ \o WriteHeaderIfNew(procFileExists[p], fieldnames)]
    /\ procPc' = [procPc EXCEPT ![p] = "header"]
    /\ UNCHANGED <<csvExists, csvLines, procArg, procFileExists>>

\* writer.writerow(row_dict), into the buffer of f.
WriteRow(p) ==
    /\ procPc[p] = "header"
    /\ buffer' = [buffer EXCEPT ![p] = Append(@, row_dict(procArg[p]))]
    /\ procPc' = [procPc EXCEPT ![p] = "row"]
    /\ UNCHANGED <<csvExists, csvLines, procArg, procFileExists>>

\* The with block is left: f is closed and its buffer goes to the end of the
\* file (append mode).
CloseFile(p) ==
    /\ procPc[p] = "row"
    /\ csvLines' = OpenAppend(csvLines) \o buffer[p]
    /\ buffer' = [buffer EXCEPT ![p] = <<>>]
    /\ procPc' = [procPc EXCEPT ![p] = "returned"]
    /\ UNCHANGED <<csvExists, procArg, procFileExists>>

ProcsFrame ==
    UNCHANGED <<prevExists, prevLines, lastOp, lastArg, lastOutcome, nCalls,
                timerVars, driverVars, osmVars>>

-----------------------------------------------------------------------------
(* Specification of the drivers *)

IdleDriver ==
    /\ driver = "uc12_duckdb"
    /\ num_runs = 1
    /\ kwargs = {}
    /\ pc = "idle"
    /\ opIdx = 1
    /\ hotIdx = 0
    /\ cold_start_time = None
    /\ hot_start_times = <<>>
    /\ runLog = <<>>
    /\ env = NoEnv
    /\ exception = "None"

\* A driver function is about to be called by its main block.
DriverInit ==
    /\ driver \in Drivers
    /\ num_runs \in 1..MaxRuns
    /\ env \in Envs(driver)
    /\ kwargs \in KwargsOf(driver, env)
    /\ pc = "start"
    /\ opIdx = 1
    /\ hotIdx = 0
    /\ cold_start_time = None
    /\ hot_start_times = <<>>
    /\ runLog = <<>>
    /\ exception = "None"

CurrentOp == OpsToRun(driver, kwargs)[opIdx]

\* "with Timer() as t: <call>" started at `now`, the call taking d ticks.
TimedBlock(now, d) == Timer_exit(Timer_enter(NewTimer, now), now + d)

LogEntry(op, kind, index, call, t, ok) ==
    [op |-> op.name, kind |-> kind, index |-> index, call |-> call,
     start |-> t["start"], end |-> t["end"], interval |-> t["interval"],
     ok |-> ok]

\* "After the loop, calculate and save results": after the if block of the
\* hot runs in uc1&2_duckdb and uc1&2_postgis, inside it in uc1&2_pyosmium.
Summary(file, drv, op, cold, times, n) ==
    LET afterCold == IF cold # None
                     THEN Save(file, cold_result(drv, op, cold[1])) ELSE file
    IN  IF drv = "uc12_pyosmium" /\ ~(n > 1) THEN file
        ELSE IF Len(times) > 0 THEN Save(afterCold, hot_result(drv, op, times))
        ELSE afterCold

\* The operation is over: on to the next one, or the function returns.
NextOperation ==
    IF opIdx < Len(OpsToRun(driver, kwargs))
    THEN /\ pc' = "cold"
         /\ opIdx' = opIdx + 1
    ELSE /\ pc' = "done"
         /\ opIdx' = opIdx

WriteFile(file) ==
    /\ csvExists' = file[1]
    /\ csvLines' = file[2]

File == <<csvExists, csvLines>>

\* The function is entered and reaches its first operation.
Call ==
    /\ pc = "start"
    /\ pc' = IF Aborts(driver, env) \/ Len(OpsToRun(driver, kwargs)) = 0
             THEN "done" ELSE "cold"
    /\ UNCHANGED <<driver, num_runs, kwargs, opIdx, hotIdx, cold_start_time,
                   hot_start_times, runLog, env, exception, clock, timer,
                   csvExists, csvLines>>

\* The cold run of the current operation and everything up to the next timed
\* run.  A run that raises does so after one tick.
ColdRun ==
    \E d \in 1..MaxDuration, ok \in BOOLEAN :
        LET op == CurrentOp
            t == TimedBlock(clock, d)
            raised == ~ok /\ ~Suppressed(Timer_exit_returns)
        IN
        /\ pc = "cold"
        /\ ok \/ d = 1
        /\ ok => CallCanSucceed(driver, op, env)
        /\ clock' = clock + d
        /\ timer' = t
        /\ runLog' = <<LogEntry(op, "cold", 1, op.coldCall, t, ok)>>
        /\ hotIdx' = 0
        /\ hot_start_times' = <<>>
        /\ IF raised
           THEN /\ pc' = ColdFailure(driver)
                /\ exception' = IF ColdFailure(driver) = "crashed"
                                THEN "Exception" ELSE exception
                /\ UNCHANGED <<opIdx, cold_start_time, csvExists, csvLines>>
           ELSE /\ exception' = exception
                /\ cold_start_time' = <<t["interval"]>>
                /\ IF PlannedHotRuns(num_runs) > 0
                   THEN /\ pc' = "hot"
                        /\ opIdx' = opIdx
                        /\ WriteFile(IF SavesAfterLoop(driver) THEN File
                                     ELSE Save(File, cold_result(driver, op,
                                                                 t["interval"])))
                   ELSE /\ NextOperation
                        /\ WriteFile(
                             IF SavesAfterLoop(driver)
                             THEN Summary(File, driver, op, <<t["interval"]>>,
                                          <<>>, num_runs)
                             ELSE Save(File, cold_result(driver, op, t["interval"])))
        /\ UNCHANGED <<driver, num_runs, kwargs, env>>

\* One hot run of the current operation and everything up to the next timed
\* run.
HotRun ==
    \E d \in 1..MaxDuration, ok \in BOOLEAN :
        LET op == CurrentOp
            t == TimedBlock(clock, d)
            raised == ~ok /\ ~Suppressed(Timer_exit_returns)
            times == IF raised THEN hot_start_times
                     ELSE Append(hot_start_times, t["interval"])
            last == hotIdx + 1 >= PlannedHotRuns(num_runs)
        IN
        /\ pc = "hot"
        /\ ok \/ d = 1
        /\ ok => CallCanSucceed(driver, op, env)
        /\ clock' = clock + d
        /\ timer' = t
        /\ runLog' = Append(runLog,
                            LogEntry(op, "hot", hotIdx + 2, op.hotCall, t, ok))
        /\ IF raised /\ HotFailure(driver) # "skip"
           THEN /\ pc' = HotFailure(driver)
                /\ exception' = IF HotFailure(driver) = "crashed"
                                THEN "Exception" ELSE exception
                /\ UNCHANGED <<opIdx, hotIdx, hot_start_times, csvExists, csvLines>>
           ELSE /\ hot_start_times' = times
                /\ hotIdx' = hotIdx + 1
                /\ IF last
                   THEN IF AveragesUnguarded(driver) /\ Len(times) = 0
                        THEN /\ pc' = "crashed"
                             /\ exception' = "ZeroDivisionError"
                             /\ UNCHANGED <<opIdx, csvExists, csvLines>>
                        ELSE /\ NextOperation
                             /\ exception' = exception
                             /\ WriteFile(
                                  IF SavesAfterLoop(driver)
                                  THEN Summary(File, driver, op, cold_start_time,
                                               times, num_runs)
                                  ELSE Save(File, hot_result(driver, op, times)))
                   ELSE /\ UNCHANGED <<pc, opIdx, csvExists, csvLines, exception>>
        /\ UNCHANGED <<driver, num_runs, kwargs, cold_start_time, env>>

DriverFrame ==
    UNCHANGED <<prevExists, prevLines, lastOp, lastArg, lastOutcome, nCalls,
                timerPc, bodyRaised, excPropagated, nBlocks, osmVars, procVars>>

DriverSpecInit == CsvInit /\ TimerInit /\ DriverInit /\ IdleOsm /\ IdleProcs

DriverNext ==
    \/ Call /\ DriverFrame
    \/ ColdRun /\ DriverFrame
    \/ HotRun /\ DriverFrame

DriverSpec == DriverSpecInit /\ [][DriverNext]_vars

-----------------------------------------------------------------------------
(* Properties of the drivers *)

RunsOf(name) == SelectSeq(runLog, LAMBDA e : e.op = name)

AllOk(runs) == \A i \in DOMAIN runs : runs[i].ok

\* The operation whose runs are in runLog is over: the loop went on to the
\* next operation, or the function returned.
Finished == runLog # <<>> /\ pc \in {"cold", "done"}

\* C6: an operation whose runs all succeed is executed exactly num_runs times,
\* the cold run first and then num_runs - 1 hot runs, every hot run starting
\* after the cold run ended; no run index is attempted twice.
C6_ColdThenHotRuns ==
    /\ \A i, j \in DOMAIN runLog :
          i # j => (runLog[i].op = runLog[j].op /\ runLog[i].index # runLog[j].index)
    /\ \A i \in DOMAIN runLog :
          /\ runLog[i].index = i
          /\ runLog[i].index <= num_runs
          /\ runLog[i].kind = (IF i = 1 THEN "cold" ELSE "hot")
          /\ i > 1 => (runLog[1].ok /\ runLog[i].start >= runLog[1].end)
    /\ (Finished /\ AllOk(runLog)) => Len(runLog) = num_runs

\* The last of three operations is over after at least three runs, all of
\* which succeeded, and the function has returned.
C6_Witness ==
    /\ driver = "uc3_postgis"
    /\ pc = "done"
    /\ opIdx = 3
    /\ num_runs >= 3
    /\ AllOk(runLog)
    /\ Len(runLog) = num_runs

IsColdRow(row) == row[8] = "Cold start (first run)."
IsHotRow(row) == row[8] = "Average of hot cache runs."

RecordedHot(name) ==
    SelectSeq(runLog, LAMBDA e : e.op = name /\ e.kind = "hot" /\ e.ok)

RECURSIVE SumIntervals(_)
SumIntervals(runs) ==
    IF runs = <<>> THEN 0 ELSE Head(runs).interval + SumIntervals(Tail(runs))

\* C7: for the operation whose runs are in runLog, a cold row has num_runs 1 and the interval of the operation's first
\* run as execution_time_s; a hot row has the number of recorded hot runs as
\* num_runs and the sum of their intervals divided by that number as
\* execution_time_s, the cold interval not being part of it.
C7_ResultRows ==
    \A r \in DOMAIN csvLines :
        LET row == csvLines[r]
            runs == RunsOf(row[3])
            hot == RecordedHot(row[3])
        IN
        (runLog # <<>> /\ row[3] = runLog[1].op) =>
        /\ IsColdRow(row) =>
              /\ row[6] = "1"
              /\ runs # <<>>
              /\ runs[1].kind = "cold"
              /\ row[5] = FloatText(runs[1].interval, 1)
        /\ IsHotRow(row) =>
              /\ Len(hot) >= 1
              /\ row[6] = ToString(Len(hot))
              /\ row[5] = FloatText(SumIntervals(hot), Len(hot))

\* uc1&2_duckdb wrote a hot row although one of the hot runs had failed.
C7_Witness ==
    /\ driver = "uc12_duckdb"
    /\ \E r \in DOMAIN csvLines : IsHotRow(csvLines[r])
    /\ \E r \in DOMAIN csvLines : IsColdRow(csvLines[r])
    /\ \E i \in DOMAIN runLog : runLog[i].kind = "hot" /\ ~runLog[i].ok
    /\ Len(RecordedHot(runLog[1].op)) >= 1

\* C8: every hot run invokes the same call with the same arguments as the cold
\* run of its operation.
C8_HotRunSameCall ==
    \A i \in DOMAIN runLog :
        runLog[i].kind = "hot" =>
            runLog[i].call = RunsOf(runLog[i].op)[1].call

\* C11: in the three UC4 scripts, when the boundary of a city could not be
\* fetched, operation 4.3 is not executed in the calls made for that city, no
\* row is written for it, and no exception escapes on its account: an
\* exception that ends the call comes from a run of another operation.
C11_BoundaryFailureSkips43 ==
    (driver \in Uc4Drivers /\ env.boundary = "failed") =>
        /\ \A i \in DOMAIN runLog : runLog[i].op # "4.3"
        /\ \A r \in DOMAIN csvLines : csvLines[r][3] # "4.3"
        /\ exception # "None" =>
              (runLog # <<>> /\ runLog[Len(runLog)].op # "4.3")

\* C12: when the six dataset files of a city exist and its boundary was
\* fetched, the one call the UC4 GeoPandas main block makes for the city finds
\* the required keys of operations 4.1, 4.2 and 4.3 among its keyword
\* arguments, and once it has returned a row of each of them is in the file.
C12_GeoPandasRunsAllOperations ==
    (/\ driver = "uc4_geopandas"
     /\ env = Env("fetched", Uc4Datasets)
     /\ pc # "start") =>
        /\ \A i \in DOMAIN Operations(driver) :
              Operations(driver)[i].requires \subseteq kwargs
        /\ pc = "done" =>
              \A name \in {"4.1", "4.2", "4.3"} :
                  \E r \in DOMAIN csvLines : csvLines[r][3] = name

\* C13: in run_duckdb_ingestion_and_filtering and
\* run_pyosmium_ingestion_and_filtering, if the PBF file is missing, or the
\* boundary fetch fails, or the cold start run raises, the function returns
\* without raising, runs no hot run and writes nothing to the results file;
\* in the first two cases it does not even start the cold run.
C13_AbortPaths ==
    LET noFile == "pbf" \notin env.files
        noBoundary == env.boundary = "failed"
        coldRaised == runLog # <<>> /\ ~runLog[1].ok
    IN  (driver \in {"uc12_duckdb", "uc12_pyosmium"} /\ pc # "start"
           /\ (noFile \/ noBoundary \/ coldRaised)) =>
            /\ pc = "done"
            /\ exception = "None"
            /\ \A i \in DOMAIN runLog : runLog[i].kind # "hot"
            /\ ~csvExists
            /\ csvLines = <<>>
            /\ (noFile \/ noBoundary) => runLog = <<>>

\* The PyOsmium driver was asked for several runs, found its file and its
\* boundary, and its cold run raised.
C13_Witness ==
    /\ driver = "uc12_pyosmium"
    /\ num_runs >= 2
    /\ env = Env("fetched", {"pbf"})
    /\ runLog # <<>>
    /\ ~runLog[1].ok
    /\ pc = "done"

HotRows(lines) == SelectSeq(lines, IsHotRow)
ColdRows(lines) == SelectSeq(lines, IsColdRow)

\* C14: in run_duckdb_ingestion_and_filtering, once the cold run succeeded,
\* every one of the num_runs - 1 hot runs is attempted whatever became of the
\* earlier ones; when the function has returned, the cold row is in the file,
\* and the hot row is there exactly if a hot run succeeded, with the number
\* and the average of the successful hot runs.
C14_FailedHotRunSkipped ==
    (driver = "uc12_duckdb" /\ runLog # <<>> /\ runLog[1].ok) =>
        LET hot == RecordedHot(runLog[1].op) IN
        /\ exception = "None"
        /\ pc \in {"hot", "done"}
        /\ pc = "hot" <=> Len(runLog) < num_runs
        /\ \A i \in DOMAIN runLog : runLog[i].index = i
        /\ pc = "done" =>
              /\ Len(runLog) = num_runs
              /\ Len(ColdRows(csvLines)) = 1
              /\ Len(HotRows(csvLines)) = (IF Len(hot) >= 1 THEN 1 ELSE 0)
              /\ Len(hot) >= 1 =>
                    /\ HotRows(csvLines)[1][6] = ToString(Len(hot))
                    /\ HotRows(csvLines)[1][5] =
                          FloatText(SumIntervals(hot), Len(hot))

\* The first hot run failed, a later one succeeded, and the function has
\* returned.
C14_Witness ==
    /\ driver = "uc12_duckdb"
    /\ pc = "done"
    /\ Len(runLog) >= 3
    /\ runLog[1].ok
    /\ ~runLog[2].ok
    /\ runLog[3].ok
    /\ Len(HotRows(csvLines)) = 1

\* C15: no driver divides by the length of an empty list of hot times: with
\* num_runs > 1 and any pattern of failing hot runs, the hot average is
\* computed over at least one recorded time and no ZeroDivisionError is raised.
C15_HotAverageNeverDividesByZero == exception # "ZeroDivisionError"

\* C16: when run_pyosmium_ingestion_and_filtering has returned after a cold
\* run that succeeded, the cold row is in the file, for every num_runs >= 1;
\* with num_runs = 1 the cold row is the only data row.
C16_PyOsmiumSavesColdRow ==
    (driver = "uc12_pyosmium" /\ pc = "done" /\ runLog # <<>> /\ runLog[1].ok) =>
        /\ Len(ColdRows(csvLines)) = 1
        /\ ColdRows(csvLines)[1][5] = FloatText(runLog[1].interval, 1)
        /\ num_runs = 1 => DataRows(csvLines) = 1

\* C17: a cold measurement is not lost: when run_postgis_extraction or
\* run_pyosmium_ingestion_and_filtering, called with num_runs > 1, is over
\* after a cold run that succeeded, by a return or by an exception, the
\* cold row is in the file, even if a hot run raised.
C17_ColdRowNeverLost ==
    (/\ driver \in {"uc12_postgis", "uc12_pyosmium"}
     /\ num_runs > 1
     /\ pc \in {"done", "crashed"}
     /\ runLog # <<>>
     /\ runLog[1].ok) =>
        /\ Len(ColdRows(csvLines)) = 1
        /\ ColdRows(csvLines)[1][5] = FloatText(runLog[1].interval, 1)

\* The place of an operation in the list of its driver.
ListedAt(drv, name) ==
    CHOOSE i \in DOMAIN Operations(drv) : Operations(drv)[i].name = name

\* C18: when a call of a UC3, UC4 or UC5 driver has returned after running k
\* operations without a failure, the file it created holds the header and
\* then 2k data rows if num_runs > 1, k data rows if num_runs = 1: for each
\* operation its cold row and, right after it, its hot row, the operations
\* in the order in which the driver lists them.
C18_RowsPerOperation ==
    (/\ driver \in {"uc3_postgis", "uc3_duckdb", "uc3_geopandas", "uc4_postgis",
                    "uc4_duckdb", "uc4_geopandas", "uc5_python"}
     /\ pc = "done"
     /\ AllOk(runLog)) =>
        LET k == IF runLog = <<>> THEN 0 ELSE opIdx
            m == IF num_runs > 1 THEN 2 ELSE 1
            row(j) == csvLines[1 + j]
        IN  /\ k = 0 => csvLines = <<>>
            /\ k > 0 =>
                  /\ IsHeader(csvLines[1])
                  /\ Len(csvLines) = 1 + m * k
                  /\ \A j \in 1..k :
                        /\ IsColdRow(row(m * (j - 1) + 1))
                        /\ m = 2 =>
                              /\ IsHotRow(row(m * j))
                              /\ row(m * j)[3] = row(m * j - 1)[3]
                  /\ \A i, j \in 1..k :
                        i < j => ListedAt(driver, row(m * i)[3])
                                    < ListedAt(driver, row(m * j)[3])
                  /\ row(m * k)[3] = runLog[1].op

\* Three operations were run, each with hot runs, and the call has returned.
C18_Witness ==
    /\ driver = "uc3_geopandas"
    /\ pc = "done"
    /\ opIdx = 3
    /\ num_runs = 2
    /\ AllOk(runLog)
    /\ Len(csvLines) = 7

-----------------------------------------------------------------------------
Init == CsvInit /\ TimerInit /\ IdleDriver /\ IdleOsm /\ IdleProcs

OsmSpecInit == CsvInit /\ TimerInit /\ IdleDriver /\ OsmInit /\ IdleProcs

OsmNext ==
    \/ FirstPassApplyFile /\ UNCHANGED <<csvVars, timerVars, driverVars, procVars>>
    \/ CollectWayNodes /\ UNCHANGED <<csvVars, timerVars, driverVars, procVars>>
    \/ SecondPassApplyFile /\ UNCHANGED <<csvVars, timerVars, driverVars, procVars>>
    \/ GetGeodataframe /\ UNCHANGED <<csvVars, timerVars, driverVars, procVars>>

OsmSpec == OsmSpecInit /\ [][OsmNext]_vars

WaysOf(file) == {file[i] : i \in {j \in DOMAIN file : file[j].kind = "w"}}
RelationsOf(file) == {file[i] : i \in {j \in DOMAIN file : file[j].kind = "r"}}

\* The ways the first pass must ask for: the building ways and the way members
\* of the building multipolygons, whatever their place in the file.
ExpectedWays(file) ==
    {w.id : w \in {x \in WaysOf(file) : "building" \in DOMAIN x.tags}}
    \cup UNION { {r.members[i].ref :
                     i \in {k \in DOMAIN r.members : r.members[k].type = "w"}} :
                 r \in {x \in RelationsOf(file) :
                           /\ "building" \in DOMAIN x.tags
                           /\ "type" \in DOMAIN x.tags
                           /\ x.tags["type"] = "multipolygon"} }

ExpectedNodes(file) ==
    UNION { Range(w.nodes) : w \in {x \in WaysOf(file) : x.id \in ExpectedWays(file)} }

\* C9: after apply_file, required_ways is the set of the building ways' ids and
\* of the way members of the building multipolygon relations; after
\* collect_way_nodes, required_nodes is the set of the nodes referenced by the
\* ways of the file that are in required_ways, in every file order.
C9_FirstPassSets ==
    /\ osmPc \in {"ids", "nodes", "cached", "built"} =>
          required_ways = ExpectedWays(pbf)
    /\ osmPc \in {"nodes", "cached", "built"} =>
          required_nodes = ExpectedNodes(pbf)

\* The relation comes first in the file and brings in a way without a
\* building tag; another way of the file is not required.
C9_Witness ==
    /\ osmPc = "nodes"
    /\ pbf[1].kind = "r"
    /\ IsBuildingMultipolygon(pbf[1].tags)
    /\ \E w \in WaysOf(pbf) : w.id \in required_ways /\ w.tags = NoTags
    /\ \E w \in WaysOf(pbf) : w.id \notin required_ways
    /\ 99 \in required_ways
    /\ required_nodes # {}

HolesOf(geometry) ==
    IF geometry.type = "Polygon" THEN Range(geometry.holes)
    ELSE UNION {Range(geometry.polygons[i].holes) : i \in DOMAIN geometry.polygons}

ShellsOf(geometry) ==
    IF geometry.type = "Polygon" THEN {geometry.shell}
    ELSE {geometry.polygons[i].shell : i \in DOMAIN geometry.polygons}

\* C10: for every building multipolygon relation that yields a geometry,
\* every usable inner member ring is a hole of that geometry, with one outer
\* ring or with several.
C10_InnerRingsAreHoles ==
    (osmPc = "built") =>
        \A j \in DOMAIN relations_cache :
            LET rel == relations_cache[j]
                outer == MemberRings(rel, ways_cache, nodes_cache, TRUE)
                inner == MemberRings(rel, ways_cache, nodes_cache, FALSE)
            IN  outer # <<>> =>
                  \E b \in DOMAIN buildings :
                      /\ buildings[b].tags = rel.tags
                      /\ ShellsOf(buildings[b].geometry) = Range(outer)
                      /\ Range(inner) \subseteq HolesOf(buildings[b].geometry)

\* C19: no building is lost: every way of the file that has a building tag
\* and at least four nodes with known coordinates is in the output of
\* get_geodataframe, as the polygon of a building of its own with its tags or
\* as a ring (shell or hole) of the geometry of a relation building.
C19_NoBuildingLost ==
    (osmPc = "built") =>
        \A w \in WaysOf(pbf) :
            LET points == Points(w.nodes, nodes_cache) IN
            ("building" \in DOMAIN w.tags /\ Len(points) >= 4) =>
                \E b \in DOMAIN buildings :
                    \/ /\ buildings[b].geometry = Polygon(points, <<>>)
                       /\ buildings[b].tags = w.tags
                    \/ /\ "type" \in DOMAIN buildings[b].tags
                       /\ points \in ShellsOf(buildings[b].geometry)
                                       \cup HolesOf(buildings[b].geometry)

TimerNext ==
    \/ Tick /\ UNCHANGED <<csvVars, driverVars, osmVars, procVars>>
    \/ WithEnter /\ UNCHANGED <<csvVars, driverVars, osmVars, procVars>>
    \/ WithExitNormal /\ UNCHANGED <<csvVars, driverVars, osmVars, procVars>>
    \/ WithExitRaise /\ UNCHANGED <<csvVars, driverVars, osmVars, procVars>>

TimerSpec == Init /\ [][TimerNext]_vars

\* C5: once a with-Timer block is left, interval is recorded, equals
\* end - start and is >= 0, whether the body completed or raised; an exception
\* of the body is never swallowed.
C5_TimerInterval ==
    (timerPc = "left") =>
        /\ {"start", "end", "interval"} \subseteq DOMAIN timer
        /\ timer["interval"] = timer["end"] - timer["start"]
        /\ timer["interval"] >= 0
        /\ timer["end"] <= clock
        /\ bodyRaised => excPropagated

\* A block whose body took time and then raised.
C5_Witness ==
    /\ timerPc = "left"
    /\ bodyRaised
    /\ timer["interval"] > 0

-----------------------------------------------------------------------------
(* Specification of the concurrent writers *)

ProcsSpecInit == CsvInit /\ TimerInit /\ IdleDriver /\ IdleOsm /\ ProcsInit

ProcsNext ==
    \/ \E p \in Procs : ExistsCheck(p) /\ ProcsFrame
    \/ \E p \in Procs : OpenFile(p) /\ ProcsFrame
    \/ \E p \in Procs : WriteHeader(p) /\ ProcsFrame
    \/ \E p \in Procs : WriteRow(p) /\ ProcsFrame
    \/ \E p \in Procs : CloseFile(p) /\ ProcsFrame

ProcsSpec == ProcsSpecInit /\ [][ProcsNext]_vars

\* C20: when all the processes that called save_results at the same time on a
\* results file that did not exist have returned, the file holds exactly one
\* header line, as its first line, and after it one data row per process.
C20_OneHeaderWhenConcurrent ==
    (\A p \in Procs : procPc[p] = "returned") =>
        /\ HeaderCount(csvLines) = 1
        /\ IsHeader(csvLines[1])
        /\ DataRows(csvLines) = NumProcs

-----------------------------------------------------------------------------

Next ==
    \/ BenchSaveResults /\ UNCHANGED <<timerVars, driverVars, osmVars, procVars>>
    \/ UtilsSaveResults /\ UNCHANGED <<timerVars, driverVars, osmVars, procVars>>

Spec == Init /\ [][Next]_vars

====
